---- MODULE Spec2Model ----
(***************************************************************************)
(* simple-proxy-id: a fixed-target reverse proxy (index.js), its attack    *)
(* detector plugin (attack-detector.js) and the client-IP resolution of    *)
(* the logger plugin (logger.js).                                          *)
(*                                                                         *)
(* JavaScript strings that the code parses (header values, request urls)   *)
(* are sequences of one-character strings, so that split, trim and         *)
(* url.parse are computed and not assumed.  The JavaScript value           *)
(* `undefined` is the one-element sequence Undefined.                      *)
(* Time is Date.now() in abstract ticks; it never runs backwards.          *)
(*                                                                         *)
(* Spec is the server with its detectors and the responses it writes;      *)
(* ForwardSpec is forwardRequest seen from the upstream's side (outbound   *)
(* options, both connections); ApiSpec calls the constructors and          *)
(* filterHeaders on their own; LoggerSpec is the logger middleware with    *)
(* its asynchronous writes to the log file.                                *)
(***************************************************************************)
EXTENDS Integers, Sequences, FiniteSets, Bags, TLC

VARIABLES
  config,      \* the options the proxy was created with
  now,         \* Date.now()
  hitTracker,  \* per detector: Map from ip to the timestamps of its hits
  reqs,        \* the request/response pairs in flight (a bag)
  accepted,    \* the request the latest step accepted, as the chain saw it
  ended,       \* the request/response pair the latest step ended, with
               \* the response as the client got it
  nreq,        \* number of requests accepted so far
  triggered,   \* the calls of onTrigger made by the latest step
  run          \* history: per detector and ip, the matching completions
               \* since the last call of onTrigger for that ip, whether
               \* onTrigger was ever called for it, and the tally: how
               \* many matching completions and calls there were, and
               \* when the first and the latest completion happened

\* the forwarding engine seen from the upstream's side
VARIABLES
  options,       \* the options given to createProxy / createProxyMiddleware
  targetParsed,  \* the target descriptor cached at construction
  fwd            \* the latest forward: the inbound request, the options
                 \* of the outbound request, and both connections

\* the constructors and pure helpers, called on their own
VARIABLES
  api,           \* the latest call: function, arguments and outcome
  pattern        \* the RegExp object given as `path` to the detector
                 \* whose path check is called: source, flags, lastIndex

proxyVars ==
  <<config, now, hitTracker, reqs, accepted, ended, nreq, triggered, run>>

forwardVars == <<options, targetParsed, fwd>>

\* the logger middleware and its log file
VARIABLES
  logState       \* the responses wrapped by the logger, the latest call of
                 \* res.end, the writes in flight and the lines written

apiVars == <<api, pattern>>

vars == <<proxyVars, forwardVars, apiVars, logState>>

(***************************** bounds **************************************)
MaxTime == 2
MaxRequests == 3
MaxInFlight == 2

(************************ JavaScript values ********************************)
Undefined == <<"undefined">>

Truthy(v) == v # Undefined /\ v # <<>>

\* a || b
Or(a, b) == IF Truthy(a) THEN a ELSE b

\* index of the first element of s that lies in the set cs, 0 if none
RECURSIVE IndexOfFrom(_, _, _)
IndexOfFrom(s, cs, i) ==
  IF i > Len(s) THEN 0
  ELSE IF s[i] \in cs THEN i
  ELSE IndexOfFrom(s, cs, i + 1)

\* s.split(',')[0]
SplitFirst(s) ==
  LET i == IndexOfFrom(s, {","}, 1)
  IN IF i = 0 THEN s ELSE SubSeq(s, 1, i - 1)

RECURSIVE TrimLeft(_)
TrimLeft(s) == IF s # <<>> /\ Head(s) = " " THEN TrimLeft(Tail(s)) ELSE s

RECURSIVE TrimRight(_)
TrimRight(s) ==
  IF s # <<>> /\ s[Len(s)] = " " THEN TrimRight(SubSeq(s, 1, Len(s) - 1)) ELSE s

\* s.trim()
Trim(s) == TrimRight(TrimLeft(s))

\* a path that keeps the query string
PathnameWithQuery(u) == u

\* url.parse(u).pathname: the url up to its first '?' or '#'
Pathname(u) ==
  LET i == IndexOfFrom(u, {"?", "#"}, 1)
  IN IF i = 0 THEN u ELSE SubSeq(u, 1, i - 1)

(***************************** Map *****************************************)
EmptyMap == [k \in {} |-> <<>>]

MapHas(m, k) == k \in DOMAIN m

\* hitTracker.get(ip) || []
MapGetOrEmpty(m, k) == IF k \in DOMAIN m THEN m[k] ELSE <<>>

MapSet(m, k, v) == [x \in (DOMAIN m) \cup {k} |-> IF x = k THEN v ELSE m[x]]

MapDelete(m, k) == [x \in (DOMAIN m) \ {k} |-> m[x]]

(************************* request inputs **********************************)
\* Request headers: CF-Connecting-IP, X-Forwarded-For, X-Real-IP, and the
\* peer address of the socket (req.socket.remoteAddress).
Headers(cf, xff, xri, remote) ==
  [cf |-> cf, xff |-> xff, xri |-> xri, remote |-> remote, ua |-> Undefined]

\* the request h with the header User-Agent: ua
UserAgent(h, ua) == [h EXCEPT !.ua = ua]

HeaderSets ==
  { UserAgent(Headers(<<"1">>, <<"5">>, Undefined, <<"7">>), <<"m">>),
    Headers(Undefined, <<"5">>, Undefined, <<"7">>),
    Headers(Undefined, <<"9", ",", " ", "8">>, Undefined, <<"7">>) }

Urls == { <<"/", "a">>, <<"/", "a", "?", "x">>, <<"/", "b">> }

UpstreamStatuses == {200, 401}

(*********************** construction options ******************************)
StringPath(p) == [kind |-> "string", value |-> p]

\* a pattern path: the regular expression /^prefix/
RegExpPath(prefix) == [kind |-> "regexp", value |-> prefix]

\* onTrigger is what the callback does when called: "ok" (it returns) or
\* "throw"
Detector(p, code, th, tw, cb) ==
  [path |-> p, statusCode |-> code, threshold |-> th, timeWindow |-> tw,
   onTrigger |-> cb]

\* createProxy({target, attackDetector}) and createProxyMiddleware({target})
Configs ==
  { [mode |-> "standalone", logger |-> FALSE,
     detectors |-> << Detector(StringPath(<<"/", "a">>), 401, 3, 1, "ok") >>],
    [mode |-> "standalone", logger |-> TRUE,
     detectors |-> << Detector(StringPath(<<"/", "a">>), 401, 2, 2, "throw"),
                      Detector(StringPath(<<"/", "a">>), 504, 1, 2, "ok") >>],
    [mode |-> "standalone", logger |-> TRUE,
     detectors |-> << Detector(StringPath(<<"/", "a">>), 401, 1, 1, "ok"),
                      Detector(StringPath(<<"/", "a">>), 401, 2, 2, "ok") >>],
    [mode |-> "standalone", logger |-> FALSE,
     detectors |-> << Detector(RegExpPath(<<"/">>), 401, 2, 2, "ok") >>],
    [mode |-> "express", logger |-> FALSE, detectors |-> << >>] }


(********************** strings, URLs, objects *****************************)
UpperChars == <<"A", "B", "C", "D", "E", "F", "G", "H", "I", "J", "K", "L", "M", "N", "O", "P", "Q", "R", "S", "T", "U", "V", "W", "X", "Y", "Z">>

LowerChars == <<"a", "b", "c", "d", "e", "f", "g", "h", "i", "j", "k", "l", "m", "n", "o", "p", "q", "r", "s", "t", "u", "v", "w", "x", "y", "z">>

Digits == {"0", "1", "2", "3", "4", "5", "6", "7", "8", "9"}

Letters == {UpperChars[i] : i \in DOMAIN UpperChars}
             \cup {LowerChars[i] : i \in DOMAIN LowerChars}

\* String.prototype.toLowerCase
ToLowerCase(s) ==
  [i \in DOMAIN s |->
     IF \E j \in DOMAIN UpperChars : UpperChars[j] = s[i]
     THEN LowerChars[CHOOSE j \in DOMAIN UpperChars : UpperChars[j] = s[i]]
     ELSE s[i]]

\* index of the last element of s that is c, 0 if none
LastIndexOf(s, c) ==
  IF \E i \in DOMAIN s : s[i] = c
  THEN CHOOSE i \in DOMAIN s : s[i] = c /\ \A j \in DOMAIN s : s[j] = c => j <= i
  ELSE 0

RECURSIVE SkipSlashes(_)
SkipSlashes(s) ==
  IF s # << >> /\ Head(s) \in {"/", "\\"} THEN SkipSlashes(Tail(s)) ELSE s

InvalidURL ==
  [ok |-> FALSE, protocol |-> << >>, hostname |-> << >>, port |-> << >>,
   host |-> << >>]

\* the default port of a special scheme
DefaultPort(scheme) ==
  IF scheme = <<"h", "t", "t", "p", "s">> THEN <<"4", "4", "3">> ELSE <<"8", "0">>

\* new URL(s) without a base, for urls without credentials: the scheme up
\* to the first ':', for http and https the authority after any slashes,
\* split at its last ':' into hostname and port, the port dropped when it
\* is the scheme's default; for any other scheme an opaque path and no host.
\* ok is FALSE where new URL throws.
NewURL(s) ==
  LET colon == IndexOfFrom(s, {":"}, 1)
      scheme == ToLowerCase(SubSeq(s, 1, colon - 1))
      rest == SkipSlashes(SubSeq(s, colon + 1, Len(s)))
      stop == IndexOfFrom(rest, {"/", "?", "#"}, 1)
      authority == IF stop = 0 THEN rest ELSE SubSeq(rest, 1, stop - 1)
      at == LastIndexOf(authority, ":")
      hostname == ToLowerCase(IF at = 0 THEN authority
                              ELSE SubSeq(authority, 1, at - 1))
      rawPort == IF at = 0 THEN << >>
                 ELSE SubSeq(authority, at + 1, Len(authority))
      port == IF rawPort = DefaultPort(scheme) THEN << >> ELSE rawPort
  IN IF s = Undefined \/ colon <= 1 THEN InvalidURL
     ELSE IF scheme[1] \notin Letters
               \/ \E i \in DOMAIN scheme :
                    scheme[i] \notin Letters \cup Digits \cup {"+", "-", "."}
     THEN InvalidURL
     ELSE IF scheme \notin {<<"h", "t", "t", "p">>, <<"h", "t", "t", "p", "s">>}
     THEN [ok |-> TRUE, protocol |-> scheme \o <<":">>, hostname |-> << >>,
           port |-> << >>, host |-> << >>]
     ELSE IF hostname = << >> \/ \E i \in DOMAIN rawPort : rawPort[i] \notin Digits
     THEN InvalidURL
     ELSE [ok |-> TRUE, protocol |-> scheme \o <<":">>, hostname |-> hostname,
           port |-> port,
           host |-> IF port = << >> THEN hostname ELSE hostname \o <<":">> \o port]

\* An object as its entries in property order: a sequence of <<key, value>>
\* with distinct keys (keys that are not integer-like).
ObjHas(o, key) == \E i \in DOMAIN o : o[i][1] = key

ObjGet(o, key) ==
  IF ObjHas(o, key) THEN o[CHOOSE i \in DOMAIN o : o[i][1] = key][2]
  ELSE Undefined

\* o[key] = value: in place for an existing key, appended for a new one
ObjSet(o, key, value) ==
  IF ObjHas(o, key)
  THEN [i \in DOMAIN o |-> IF o[i][1] = key THEN <<key, value>> ELSE o[i]]
  ELSE Append(o, <<key, value>>)

\* delete o[key]
ObjDelete(o, key) == SelectSeq(o, LAMBDA e : e[1] # key)

(************************ construction *************************************)
\* options.changeOrigin and the like: "true", "false" or "undefined"
Default(v, d) == IF v = "undefined" THEN d ELSE v

NoTarget ==
  [hostname |-> << >>, port |-> << >>, host |-> << >>, isHttps |-> FALSE]

\* the target descriptor cached from new URL(target); the default port is
\* the number 443 or 80 in the code, written here as its digits
TargetParsed(targetUrl) ==
  LET isHttps == targetUrl.protocol = <<"h", "t", "t", "p", "s", ":">>
  IN [hostname |-> targetUrl.hostname,
      port |-> Or(targetUrl.port, IF isHttps THEN <<"4", "4", "3">> ELSE <<"8", "0">>),
      host |-> targetUrl.host,
      isHttps |-> isHttps]

\* JavaScript values of several types, as the validation tells them apart
JsUndefined == [type |-> "undefined"]

JsNumber(n) == [type |-> "number", v |-> n]

JsString(str) == [type |-> "string", v |-> str]

JsFunction == [type |-> "function"]

\* !v for these values
Not(v) ==
  \/ v.type = "undefined"
  \/ v.type = "number" /\ v.v = 0
  \/ v.type = "string" /\ v.v = << >>

\* v <= 0, as JavaScript compares a value of these types with a number
LessOrEqualZero(v) ==
  \/ v.type = "number" /\ v.v <= 0
  \/ v.type = "string" /\ v.v = << >>

DetectorThrew(message) == [threw |-> message, middleware |-> FALSE]

\* a constructor that leaves the checks to the first request
createAttackDetectorUnchecked(o) == [threw |-> "", middleware |-> TRUE]

\* createAttackDetector(options): the validation, then the middleware
createAttackDetector(o) ==
  IF Not(o.path) THEN DetectorThrew("path is required")
  ELSE IF Not(o.statusCode) THEN DetectorThrew("statusCode is required")
  ELSE IF Not(o.threshold) \/ LessOrEqualZero(o.threshold)
  THEN DetectorThrew("threshold must be a positive number")
  ELSE IF o.onTrigger.type # "function"
  THEN DetectorThrew("onTrigger must be a function")
  ELSE [threw |-> "", middleware |-> TRUE]

\* options.name, undefined (here d) when the caller gave no such property
Option(o, name, d) == IF name \in DOMAIN o THEN o[name] ELSE d

\* createLogger(options): cleans old logs up, schedules the daily cleanup
\* with setTimeout and returns the middleware
createLogger == [middleware |-> TRUE, cleanupTimer |-> TRUE]

\* detectors.map(opts => createAttackDetector(opts)): the message of the
\* first call that throws, "" if none does
RECURSIVE MapCreateAttackDetector(_)
MapCreateAttackDetector(detectors) ==
  IF detectors = << >> THEN ""
  ELSE IF createAttackDetector(Head(detectors)).threw # ""
       THEN createAttackDetector(Head(detectors)).threw
       ELSE MapCreateAttackDetector(Tail(detectors))

\* a constructor that threw: nothing after the throw has run
Threw(message) ==
  [threw |-> message, targetParsed |-> NoTarget, changeOrigin |-> "false",
   server |-> FALSE, listening |-> FALSE, middleware |-> FALSE,
   cleanupTimer |-> FALSE]

\* a createProxy that parses the target only when the first request comes
createProxyLazy(o) ==
  [threw |-> "", targetParsed |-> NoTarget,
   changeOrigin |-> Default(o.changeOrigin, "false"),
   server |-> TRUE, listening |-> TRUE, middleware |-> FALSE,
   cleanupTimer |-> FALSE]

\* createProxy(options): the checks and the target parsing, the logger if
\* options.logger is given, the detectors of options.attackDetector (one
\* or an array, here a sequence), then http.createServer and server.listen
createProxy(o) ==
  IF ~Truthy(o.target) THEN Threw("Target URL is required")
  ELSE IF ~NewURL(o.target).ok THEN Threw("Target must be a valid URL")
  ELSE LET cleanupTimer == Option(o, "logger", FALSE) /\ createLogger.cleanupTimer
           detectorThrew == MapCreateAttackDetector(Option(o, "attackDetector", << >>))
       IN IF detectorThrew # ""
          THEN [Threw(detectorThrew) EXCEPT !.cleanupTimer = cleanupTimer]
          ELSE [threw |-> "", targetParsed |-> TargetParsed(NewURL(o.target)),
                changeOrigin |-> Default(o.changeOrigin, "false"),
                server |-> TRUE, listening |-> TRUE, middleware |-> FALSE,
                cleanupTimer |-> cleanupTimer]

\* createProxyMiddleware(options): the same checks and parsing, then the
\* middleware function is returned
createProxyMiddleware(o) ==
  IF ~Truthy(o.target) THEN Threw("Target URL is required")
  ELSE IF ~NewURL(o.target).ok THEN Threw("Target must be a valid URL")
  ELSE [threw |-> "", targetParsed |-> TargetParsed(NewURL(o.target)),
        changeOrigin |-> Default(o.changeOrigin, "false"),
        server |-> FALSE, listening |-> FALSE, middleware |-> TRUE,
        cleanupTimer |-> FALSE]

Construct(o) ==
  IF o.fn = "createProxy" THEN createProxy(o) ELSE createProxyMiddleware(o)

(************************* forwarding engine *******************************)
\* JSON.stringify of an object whose two properties hold strings free of
\* characters that need escaping
JSONStringify(k1, v1, k2, v2) ==
  "{\"" \o k1 \o "\":\"" \o v1 \o "\",\"" \o k2 \o "\":\"" \o v2 \o "\"}"

ERROR_TIMEOUT ==
  JSONStringify("error", "Gateway Timeout",
                "message", "Target server took too long to respond")

ERROR_PROXY ==
  JSONStringify("error", "Proxy Error",
                "message", "An error occurred during proxy request")

(******************************* logger ************************************)
\* a resolution that looks at X-Forwarded-For first
getClientIPForwardedFirst(h) ==
  IF Truthy(h.xff) THEN Trim(SplitFirst(h.xff))
  ELSE IF Truthy(h.cf) THEN h.cf
  ELSE IF Truthy(h.xri) THEN h.xri
  ELSE Or(h.remote, <<"u", "n", "k", "n", "o", "w", "n">>)

\* getClientIP(req)
getClientIP(h) ==
  IF Truthy(h.cf) THEN h.cf
  ELSE IF Truthy(h.xff) THEN Trim(SplitFirst(h.xff))
  ELSE IF Truthy(h.xri) THEN h.xri
  ELSE Or(h.remote, <<"u", "n", "k", "n", "o", "w", "n">>)

\* no request seen, nothing written
NoLog ==
  [accepted |-> 0, open |-> EmptyBag, given |-> << >>, passed |-> << >>,
   completed |-> 0, pending |-> 0, lines |-> 0, failed |-> 0]

\* a logger that writes nothing
writeLogSkipped(l) == l

\* writeLog(logDir, logEntry): an async function that appends the entry to
\* the day's file; the append is in flight when it returns its promise
writeLog(l) == [l EXCEPT !.pending = @ + 1]

\* the logger's res.end wrapper called with args on the response w: the
\* entry is handed to writeLog, whose promise is dropped, and the original
\* end is called with the same arguments
LoggerEnd(l, w, args) ==
  [writeLog(l) EXCEPT !.open = @ (-) SetToBag({w}),
                      !.given = args,
                      !.passed = args,
                      !.completed = @ + 1]

\* fsPromises.appendFile settles; a rejection is caught inside writeLog and
\* reported with console.error
AppendFileSettled(l, ok) ==
  [l EXCEPT !.pending = @ - 1,
            !.lines = @ + (IF ok THEN 1 ELSE 0),
            !.failed = @ + (IF ok THEN 0 ELSE 1)]

(************************** attack detector ********************************)
\* const ip = xff?.split(',')[0].trim() || x-real-ip || socket.remoteAddress
\*            || connection.remoteAddress   (req.connection is req.socket)
DetectorIP(h) ==
  LET first == IF h.xff = Undefined THEN Undefined ELSE Trim(SplitFirst(h.xff))
  IN Or(first, Or(h.xri, Or(h.remote, h.remote)))

\* a detector that monitors every path
matchAnyPath(targetPath, requestPath) == TRUE

matchPath(targetPath, requestPath) ==
  IF targetPath.kind = "regexp"
  THEN Len(requestPath) >= Len(targetPath.value)
       /\ SubSeq(requestPath, 1, Len(targetPath.value)) = targetPath.value
  ELSE requestPath = targetPath.value

\* a detector that never purges
cleanOldHitsKeepAll(timestamps, t, timeWindow) == timestamps

\* a purge that keeps a hit whose age is exactly the window
cleanOldHitsInclusive(timestamps, t, timeWindow) ==
  SelectSeq(timestamps, LAMBDA ts : t - ts <= timeWindow)

\* a purge that drops every earlier hit
cleanOldHitsDropAll(timestamps, t, timeWindow) == << >>

cleanOldHits(timestamps, t, timeWindow) ==
  SelectSeq(timestamps, LAMBDA ts : t - ts < timeWindow)

\* statusCodeSent === statusCode
\* a detector that counts every status
StatusMatchesAlways(statusCodeSent, statusCode) == TRUE

StatusMatches(statusCodeSent, statusCode) == statusCodeSent = statusCode

\* a detector that fires only once the threshold is exceeded
ThresholdExceeded(hits, threshold) == Len(hits) > threshold

\* hits.length >= threshold
ThresholdReached(hits, threshold) == Len(hits) >= threshold

\* a detector that calls onTrigger outside any try block
InvokeOnTriggerUncaught(onTrigger) ==
  [reported |-> FALSE, propagated |-> onTrigger = "throw"]

\* try { onTrigger(event) } catch (err) { console.error(...) }
InvokeOnTrigger(onTrigger) ==
  [reported |-> onTrigger = "throw", propagated |-> FALSE]

\* a detector that keeps the hits after it called onTrigger
ClearHitsSkipped(tracker, ip) == tracker

\* hitTracker.delete(ip)
\* a breach that clears the hits of every ip
ClearAllHits(tracker, ip) == EmptyMap

ClearHits(tracker, ip) == MapDelete(tracker, ip)

\* the hits of an ip since its last trigger, the most recent `threshold` of
\* them (history of the matching completions, not read by the detector)
Remember(history, t, threshold) ==
  LET h == Append(history, t)
  IN IF Len(h) > threshold THEN SubSeq(h, Len(h) - threshold + 1, Len(h)) ELSE h

\* the tally of an ip after one more matching completion at time t, which
\* called onTrigger if fire
Tally(hist, ip, t, fire) ==
  LET seenBefore == ip \in DOMAIN hist
  IN [total |-> (IF seenBefore THEN hist[ip].total ELSE 0) + 1,
      calls |-> (IF seenBefore THEN hist[ip].calls ELSE 0)
                + (IF fire THEN 1 ELSE 0),
      first |-> IF seenBefore THEN hist[ip].first ELSE t,
      last |-> t]

\* one entry of the history
Entry(since, fired, tally, paths) ==
  [since |-> since, fired |-> fired, total |-> tally.total,
   calls |-> tally.calls, first |-> tally.first, last |-> tally.last,
   paths |-> paths]

\* the paths of the matching completions of an ip since the one before its
\* last call of onTrigger, with one more on requestPath
Paths(hist, ip, requestPath) ==
  (IF ip \in DOMAIN hist /\ hist[ip].since # << >> THEN hist[ip].paths ELSE {})
    \cup {requestPath}

Since(hist, ip) == IF ip \in DOMAIN hist THEN hist[ip].since ELSE << >>

Fired(hist, ip) == ip \in DOMAIN hist /\ hist[ip].fired

\* a tracker keyed by ip and path
HitKeyPerPath(ip, requestPath) == ip \o requestPath

\* the key of a request's hits in hitTracker: hitTracker.get(ip)
HitKey(ip, requestPath) == ip

\* the user agent the event reports
EventUserAgent(userAgent) == Or(userAgent, <<"u", "n", "k", "n", "o", "w", "n">>)

\* The detector's res.end override for one request, up to the call of the
\* original end.  k is the detector's position, d its options, tracker its
\* hitTracker, hist the history of its matching completions.
DetectorEnd(k, d, tracker, hist, rq, t) ==
  LET statusCodeSent ==
        IF rq.statusCodeSent = 0 THEN rq.statusCode ELSE rq.statusCodeSent
      ip == rq.ip
      key == HitKey(rq.ip, rq.requestPath)
      paths == Paths(hist, ip, rq.requestPath)
  IN IF StatusMatches(statusCodeSent, d.statusCode)
     THEN LET hits == Append(cleanOldHits(MapGetOrEmpty(tracker, key), t, d.timeWindow), t)
              set == MapSet(tracker, key, hits)
              seen == Remember(Since(hist, ip), t, d.threshold)
          IN IF ThresholdReached(hits, d.threshold)
             THEN LET call == InvokeOnTrigger(d.onTrigger)
                      event == [detector |-> k, ip |-> ip, hits |-> Len(hits),
                                path |-> rq.requestPath, timestamp |-> t,
                                userAgent |-> EventUserAgent(rq.userAgent),
                                threw |-> d.onTrigger = "throw",
                                reported |-> call.reported]
                  IN [tracker |-> IF call.propagated THEN set ELSE ClearHits(set, key),
                      hist |-> MapSet(hist, ip, Entry(<< >>, TRUE,
                                                        Tally(hist, ip, t, TRUE), paths)),
                      events |-> << event >>,
                      propagated |-> call.propagated]
             ELSE [tracker |-> set,
                   hist |-> MapSet(hist, ip, Entry(seen, Fired(hist, ip),
                                                     Tally(hist, ip, t, FALSE), paths)),
                   events |-> << >>, propagated |-> FALSE]
     ELSE [tracker |-> tracker, hist |-> hist, events |-> << >>,
           propagated |-> FALSE]

\* res.end(...) as the response object has it after the chain ran: each
\* detector whose path matched replaced res.end by a wrapper around the
\* res.end it found, so the wrapper installed last runs first.
\* The logger, first in the chain, wrapped the original res.end, so its
\* wrapper runs after every detector's and writes its entry before it calls
\* the original end.
\* acc.ended tells whether the original end was reached, acc.order what
\* ran in which order: a wrapper's evaluation, the logger's entry, the
\* original end.
RECURSIVE EndChain(_, _, _, _)
EndChain(k, rq, t, acc) ==
  IF k = 0
  THEN [acc EXCEPT !.ended = TRUE,
                   !.order = (IF config.logger
                              THEN Append(@, [step |-> "log", detector |-> 0])
                              ELSE @)
                             \o << [step |-> "originalEnd", detector |-> 0] >>]
  ELSE IF k \notin rq.wrapped THEN EndChain(k - 1, rq, t, acc)
  ELSE LET r == DetectorEnd(k, config.detectors[k], acc.hitTracker[k],
                            acc.run[k], rq, t)
           next == [acc EXCEPT !.hitTracker[k] = r.tracker,
                               !.run[k] = r.hist,
                               !.events = acc.events \o r.events,
                               !.order = Append(@, [step |-> "evaluate",
                                                    detector |-> k])]
       IN IF r.propagated THEN next
          ELSE EndChain(k - 1, rq, t, next)

(***************************** requests ************************************)
\* A request/response pair in flight is what its handlers read: the
\* detector wrappers' variables (requestPath, ip, statusCodeSent), the
\* response (headersSent, statusCode) and the outbound request (proxyReq).
NoHeaders == Headers(Undefined, Undefined, Undefined, Undefined)

NewRequest ==
  [st |-> "new", requestPath |-> << >>, ip |-> Undefined, wrapped |-> {},
   headersSent |-> FALSE, heads |-> 0, statusCodeSent |-> 0,
   statusCode |-> 200, ends |-> 0, proxyReq |-> "none", hangup |-> FALSE,
   userAgent |-> Undefined]

None ==
  [requestPath |-> << >>, ip |-> Undefined, statusCode |-> 0, body |-> "",
   heads |-> 0, ends |-> 0, order |-> << >>, userAgent |-> Undefined]

NoRequest ==
  [headers |-> NoHeaders, url |-> << >>, wrapped |-> {}, ip |-> Undefined,
   stages |-> << >>]

InFlight == BagToSet(reqs)

\* The process is alive: no handler let an exception escape.  An exception
\* that escapes a handler is an uncaught exception, which ends the process.
Serving == \A rq \in BagToSet(reqs) : rq.st # "broken"

Put(rq) == reqs (+) SetToBag({rq})

Replace(rq, new) == (reqs (-) SetToBag({rq})) (+) SetToBag({new})

Remove(rq) == reqs (-) SetToBag({rq})

\* a detector wrapper that turns the status it sees into 403
WriteHeadBlocking(rq, code) ==
  [rq EXCEPT !.statusCodeSent = IF rq.wrapped = {} THEN 0 ELSE code,
             !.statusCode = IF rq.wrapped = {} THEN code ELSE 403,
             !.headersSent = TRUE,
             !.heads = rq.heads + 1]

\* res.writeHead(code, ...): every detector wrapper records the code in its
\* statusCodeSent, then the original writeHead sends the head
WriteHead(rq, code) ==
  [rq EXCEPT !.statusCodeSent = IF rq.wrapped = {} THEN 0 ELSE code,
             !.statusCode = code,
             !.headersSent = TRUE,
             !.heads = rq.heads + 1]

\* A response whose head was sent and whose outbound request is gone:
\* nothing ends it, and nothing reads the wrappers' variables again.
Stalled(rq) ==
  [NewRequest EXCEPT !.st = "stalled", !.headersSent = TRUE, !.heads = rq.heads,
                     !.statusCode = rq.statusCode, !.proxyReq = rq.proxyReq]

\* A response that was ended while the 'error' event of its destroyed
\* outbound request is still to come: the handler will read headersSent.
AwaitingHangUp(rq) ==
  [NewRequest EXCEPT !.st = "done", !.headersSent = TRUE, !.heads = rq.heads,
                     !.statusCode = rq.statusCode, !.ends = rq.ends + 1,
                     !.proxyReq = rq.proxyReq, !.hangup = TRUE]

\* res.end(body) on the pair old, whose record is rq when end is called
End(old, rq, body) ==
  LET acc == EndChain(Len(config.detectors), rq, now,
                      [hitTracker |-> hitTracker, run |-> run,
                       events |-> << >>, ended |-> FALSE, order |-> << >>])
  IN /\ hitTracker' = acc.hitTracker
     /\ run' = acc.run
     /\ triggered' = acc.events
     /\ IF acc.ended
        THEN /\ reqs' = IF rq.hangup THEN Replace(old, AwaitingHangUp(rq))
                        ELSE Remove(old)
             /\ ended' = [requestPath |-> rq.requestPath,
                          ip |-> rq.ip, statusCode |-> rq.statusCode,
                          body |-> body, heads |-> rq.heads,
                          ends |-> rq.ends + 1, order |-> acc.order,
                          userAgent |-> rq.userAgent]
        ELSE /\ reqs' = Replace(old, [rq EXCEPT !.st = "broken"])
             /\ ended' = None

\* a chain that ends at the first detector whose path matches
DetectFirstOnly(h, u) ==
  LET dets == config.detectors
      requestPath == Pathname(u)
      all == {k \in 1..Len(dets) : matchPath(dets[k].path, requestPath)}
      wrapped == {k \in all : \A j \in all : k <= j}
  IN [wrapped |-> wrapped,
      requestPath |-> requestPath,
      ip |-> IF wrapped = {} THEN Undefined ELSE DetectorIP(h),
      userAgent |-> IF wrapped = {} THEN Undefined ELSE h.ua]

\* the attack detector middlewares, in configured order: those whose path
\* matches wrap res.writeHead and res.end
Detect(h, u) ==
  LET dets == config.detectors
      requestPath == Pathname(u)
      wrapped == {k \in 1..Len(dets) : matchPath(dets[k].path, requestPath)}
  IN [wrapped |-> wrapped,
      requestPath |-> requestPath,
      ip |-> IF wrapped = {} THEN Undefined ELSE DetectorIP(h),
      userAgent |-> IF wrapped = {} THEN Undefined ELSE h.ua]

\* What a stage does with the response and its continuation, in order:
\* "wrap" replaces methods of res, "next" calls the continuation.
\* the logger middleware: wraps res.end, then calls next()
LoggerMiddleware == <<"wrap", "next">>

\* a detector middleware that goes on after next() on a path it does not
\* monitor
DetectorMiddlewareFallThrough(d, u) ==
  IF ~matchPath(d.path, Pathname(u)) THEN <<"next", "wrap", "next">>
  ELSE <<"wrap", "next">>

\* a detector middleware: return next() on a path it does not monitor,
\* else wrap res.writeHead and res.end, then next()
DetectorMiddleware(d, u) ==
  IF ~matchPath(d.path, Pathname(u)) THEN <<"next">>
  ELSE <<"wrap", "next">>

StageEvent(ev, stage, k) == [ev |-> ev, stage |-> stage, k |-> k]

\* The closure next of createProxy's request handler and the stage it
\* invokes.  st.index is the closure's index, st.trace the stages invoked
\* and the continuation calls made so far.
RECURSIVE next(_, _), RunStage(_, _, _, _, _)
next(st, u) ==
  IF st.index = 0 /\ config.logger
  THEN RunStage(LoggerMiddleware, "logger", 0, u,
                [index |-> st.index + 1,
                 trace |-> Append(st.trace, StageEvent("invoke", "logger", 0))])
  ELSE LET detectorIndex == IF config.logger THEN st.index - 1 ELSE st.index
       IN IF detectorIndex < Len(config.detectors)
          THEN RunStage(DetectorMiddleware(config.detectors[detectorIndex + 1], u),
                        "detector", detectorIndex + 1, u,
                        [index |-> st.index + 1,
                         trace |-> Append(st.trace,
                                          StageEvent("invoke", "detector",
                                                     detectorIndex + 1))])
          ELSE [st EXCEPT !.trace = Append(@, StageEvent("invoke", "forward", 0))]

RunStage(body, stage, k, u, st) ==
  IF body = << >> THEN st
  ELSE IF Head(body) = "next"
       THEN RunStage(Tail(body), stage, k, u,
                     next([st EXCEPT !.trace =
                             Append(@, StageEvent("next", stage, k))], u))
       ELSE RunStage(Tail(body), stage, k, u, st)

\* the stages a request runs through in the configured mode
Stages(u) ==
  IF config.mode = "standalone"
  THEN next([index |-> 0, trace |-> << >>], u).trace
  ELSE << StageEvent("invoke", "forward", 0) >>

\* forwardRequest(clientReq, clientRes, ...): opens the outbound request;
\* rq is the pair as the stages before left it
forwardRequest(rq) == [rq EXCEPT !.st = "pending", !.proxyReq = "open"]

\* createProxy's request handler: the chain next() runs, the attack
\* detectors in configured order, then forwardRequest
ServerHandler(h, u) ==
  LET det == Detect(h, u)
  IN forwardRequest([NewRequest EXCEPT !.requestPath = det.requestPath,
                                       !.ip = det.ip, !.wrapped = det.wrapped,
                                       !.userAgent = det.userAgent])

\* the middleware createProxyMiddleware returns: forwardRequest, in a try
\* block; it is given no detectors and does not call next
MiddlewareHandler(h, u) ==
  forwardRequest([NewRequest EXCEPT !.requestPath = Pathname(u)])

\* the request/response pair after the handler of the configured mode ran
Accepted(h, u) ==
  IF config.mode = "standalone" THEN ServerHandler(h, u)
  ELSE MiddlewareHandler(h, u)

\* a request arrives
Request(h, u) ==
  /\ Serving
  /\ nreq < MaxRequests
  /\ BagCardinality(reqs) < MaxInFlight
  /\ reqs' = Put(Accepted(h, u))
  /\ accepted' = [headers |-> h, url |-> u, wrapped |-> Accepted(h, u).wrapped,
                   ip |-> Accepted(h, u).ip, stages |-> Stages(u)]
  /\ nreq' = nreq + 1
  /\ triggered' = << >>
  /\ ended' = None
  /\ UNCHANGED <<config, now, hitTracker, run, forwardVars, apiVars, logState>>

\* protocol.request callback: the upstream's response head arrives
ProxyResponse(rq, code) ==
  /\ Serving
  /\ accepted' = NoRequest
  /\ rq.st = "pending"
  /\ rq.proxyReq = "open"
  /\ reqs' = Replace(rq, [WriteHead(rq, code) EXCEPT !.st = "streaming"])
  /\ triggered' = << >>
  /\ ended' = None
  /\ UNCHANGED <<config, now, hitTracker, nreq, run, forwardVars, apiVars, logState>>

\* proxyRes.pipe(clientRes): the upstream's body ends, pipe ends the client
\* response
ProxyEnd(rq) ==
  /\ Serving
  /\ rq.st = "streaming"
  /\ rq.proxyReq = "open"
  /\ End(rq, [rq EXCEPT !.proxyReq = "finished"], "upstream")
  /\ accepted' = NoRequest
  /\ UNCHANGED <<config, now, nreq, forwardVars, apiVars, logState>>

\* a timeout callback that answers 504 whatever was sent before
TimeoutHandlerUnguarded(old, rq) ==
  End(old, WriteHead([rq EXCEPT !.proxyReq = "destroyed",
                                !.hangup = (rq.st = "pending")], 504),
      ERROR_TIMEOUT)

\* proxyReq.setTimeout(30000, ...) callback.  destroy() of a request that
\* has no response yet makes the request emit 'error' (socket hang up)
\* later.
TimeoutHandler(old, rq) ==
  LET destroyed == [rq EXCEPT !.proxyReq = "destroyed",
                              !.hangup = (rq.st = "pending")]
  IN IF ~destroyed.headersSent
     THEN End(old, WriteHead(destroyed, 504), ERROR_TIMEOUT)
     ELSE /\ reqs' = Replace(old, Stalled(destroyed))
          /\ triggered' = << >>
          /\ ended' = None
          /\ UNCHANGED <<hitTracker, run>>

\* the outbound socket of the pair rq was idle for the timeout
Timeout(rq) ==
  /\ Serving
  /\ rq.proxyReq = "open"
  /\ TimeoutHandler(rq, rq)
  /\ accepted' = NoRequest
  /\ UNCHANGED <<config, now, nreq, forwardVars, apiVars, logState>>

\* an 'error' handler that answers 500 whatever was sent before
ErrorHandlerUnguarded(old, rq) ==
  End(old, WriteHead(rq, 500), ERROR_PROXY)

\* an 'error' handler that answers 502 Bad Gateway
ErrorHandlerBadGateway(old, rq) ==
  IF ~rq.headersSent
  THEN End(old, WriteHead(rq, 502), ERROR_PROXY)
  ELSE /\ reqs' = IF rq.st = "done" THEN Remove(old) ELSE Replace(old, Stalled(rq))
       /\ triggered' = << >>
       /\ ended' = None
       /\ UNCHANGED <<hitTracker, run>>

\* an 'error' handler that forwards the request once more
ErrorHandlerRetry(old, rq) ==
  /\ reqs' = Replace(old, forwardRequest(rq))
  /\ triggered' = << >>
  /\ ended' = None
  /\ UNCHANGED <<hitTracker, run>>

\* proxyReq.on('error', ...) handler; old is the pair, rq its record when
\* the handler runs
ErrorHandler(old, rq) ==
  IF ~rq.headersSent
  THEN End(old, WriteHead(rq, 500), ERROR_PROXY)
  ELSE /\ reqs' = IF rq.st = "done" THEN Remove(old) ELSE Replace(old, Stalled(rq))
       /\ triggered' = << >>
       /\ ended' = None
       /\ UNCHANGED <<hitTracker, run>>

\* the outbound connection fails (refused, reset, DNS failure)
ProxyError(rq) ==
  /\ Serving
  /\ rq.proxyReq = "open"
  /\ ErrorHandler(rq, [rq EXCEPT !.proxyReq = "errored"])
  /\ accepted' = NoRequest
  /\ UNCHANGED <<config, now, nreq, forwardVars, apiVars, logState>>

\* the 'error' event of the outbound request destroyed by the timeout
HangUp(rq) ==
  /\ Serving
  /\ rq.hangup
  /\ ErrorHandler(rq, [rq EXCEPT !.hangup = FALSE])
  /\ accepted' = NoRequest
  /\ UNCHANGED <<config, now, nreq, forwardVars, apiVars, logState>>

\* time passes
Tick ==
  /\ now < MaxTime
  /\ now' = now + 1
  /\ accepted' = NoRequest
  /\ triggered' = << >>
  /\ ended' = None
  /\ UNCHANGED <<config, hitTracker, reqs, nreq, run, forwardVars, apiVars, logState>>

(********************* forwarding engine: outbound side ********************)
BLOCKED_HEADERS ==
  << <<"c", "o", "n", "n", "e", "c", "t", "i", "o", "n">>,
     <<"k", "e", "e", "p", "-", "a", "l", "i", "v", "e">>,
     <<"t", "r", "a", "n", "s", "f", "e", "r", "-", "e", "n", "c", "o", "d", "i", "n", "g">>,
     <<"u", "p", "g", "r", "a", "d", "e">>,
     <<"p", "r", "o", "x", "y", "-", "c", "o", "n", "n", "e", "c", "t", "i", "o", "n">>,
     <<"p", "r", "o", "x", "y", "-", "a", "u", "t", "h", "e", "n", "t", "i", "c", "a", "t", "e">>,
     <<"p", "r", "o", "x", "y", "-", "a", "u", "t", "h", "o", "r", "i", "z", "a", "t", "i", "o", "n">>,
     <<"t", "e">>,
     <<"t", "r", "a", "i", "l", "e", "r">> >>

Includes(list, x) == \E i \in DOMAIN list : list[i] = x

\* a filter that compares the header name as it is written
filterHeadersCaseSensitive(headers) ==
  [filtered |-> SelectSeq(headers, LAMBDA e : ~Includes(BLOCKED_HEADERS, e[1])),
   headers |-> headers]

\* filterHeaders(headers): the object it returns (filtered) and the
\* argument object as the call leaves it (headers)
filterHeaders(headers) ==
  [filtered |-> SelectSeq(headers,
                          LAMBDA e : ~Includes(BLOCKED_HEADERS, ToLowerCase(e[1]))),
   headers |-> headers]

HostKey == <<"h", "o", "s", "t">>

\* a changeOrigin step that leaves the inbound Host header in place
SetOriginKeepInbound(headers, tp, changeOrigin) ==
  IF changeOrigin = "true" THEN ObjSet(headers, HostKey, tp.host) ELSE headers

\* if (changeOrigin) options.headers.host = targetParsed.host
\* else delete options.headers.host
SetOrigin(headers, tp, changeOrigin) ==
  IF changeOrigin = "true" THEN ObjSet(headers, HostKey, tp.host)
  ELSE ObjDelete(headers, HostKey)

\* options that take the path without its query string
RequestOptionsPathname(req, tp, changeOrigin) ==
  [hostname |-> tp.hostname, port |-> tp.port, path |-> Pathname(req.url),
   method |-> req.method,
   headers |-> SetOrigin(filterHeaders(req.headers).filtered, tp, changeOrigin),
   protocol |-> IF tp.isHttps THEN "https" ELSE "http"]

\* options that take the hostname from the inbound Host header
RequestOptionsHostHeader(req, tp, changeOrigin) ==
  [hostname |-> Or(ObjGet(req.headers, HostKey), tp.hostname), port |-> tp.port,
   path |-> req.url, method |-> req.method,
   headers |-> SetOrigin(filterHeaders(req.headers).filtered, tp, changeOrigin),
   protocol |-> IF tp.isHttps THEN "https" ELSE "http"]

\* forwardRequest: the options of the outbound request and the module
\* (http or https) that sends it
RequestOptions(req, tp, changeOrigin) ==
  [hostname |-> tp.hostname, port |-> tp.port, path |-> req.url,
   method |-> req.method,
   headers |-> SetOrigin(filterHeaders(req.headers).filtered, tp, changeOrigin),
   protocol |-> IF tp.isHttps THEN "https" ELSE "http"]

(* inputs *)
Targets ==
  { Undefined, << >>,
    <<"h", "t", "t", "p", ":", "/", "/", "t">>,
    <<"h", "t", "t", "p", "s", ":", "/", "/", "t", ":", "8">>,
    <<"h", "t", "t", "p", ":", "/", "/", "t", ":", "8", "0">>,
    <<"H", "T", "T", "P", ":", "/", "/", "T", ":", "8">>,
    <<"t", ":", "8">>,
    <<"t">>,
    <<"h", "t", "t", "p", ":", "/", "/">>,
    <<"h", "t", "t", "p", ":", "/", "/", "t", ":", "x">> }

\* a valid detector configuration
ValidDetector ==
  [path |-> JsString(<<"/", "a">>), statusCode |-> JsNumber(401),
   threshold |-> JsNumber(3), onTrigger |-> JsFunction]

\* none, one valid, one without path, a valid one and one without onTrigger
DetectorLists ==
  { << >>, << ValidDetector >>,
    << [ValidDetector EXCEPT !.path = JsUndefined] >>,
    << ValidDetector, [ValidDetector EXCEPT !.onTrigger = JsUndefined] >> }

\* createProxy options with a logger and attack detectors
GuardedProxyOptions ==
  [fn : {"createProxy"},
   target : {Undefined, <<"h", "t", "t", "p", ":", "/", "/", "t">>},
   changeOrigin : {"undefined"}, logger : BOOLEAN,
   attackDetector : DetectorLists]

ProxyOptions ==
  [fn : {"createProxy", "createProxyMiddleware"}, target : Targets,
   changeOrigin : {"true", "false", "undefined"}]

Methods == {"GET", "POST"}

ForwardUrls ==
  { <<"/", "a">>,
    <<"/", "a", "?", "t", "a", "r", "g", "e", "t", "=", "e">> }

\* req.headers as Node's parser gives them: names in lower case
ForwardHeaders ==
  { << <<HostKey, <<"e">>>>, <<<<"a", "c", "c", "e", "p", "t">>, <<"x">>>> >>,
    << <<<<"x", "-", "f", "o", "r", "w", "a", "r", "d", "e", "d", "-", "h", "o", "s", "t">>, <<"e">>>>, <<<<"c", "o", "n", "n", "e", "c", "t", "i", "o", "n">>, <<"k">>>>, <<HostKey, <<"p">>>> >>,
    << <<<<"a", "c", "c", "e", "p", "t">>, <<"x">>>> >> }

\* new RegExp(source, flags), for the sources of the form ^prefix
RegExp(prefix, flags) == [prefix |-> prefix, flags |-> flags, lastIndex |-> 0]

NoPattern == RegExp(<< >>, "")

NoCall == [fn |-> "", args |-> << >>, result |-> << >>]

NoForward ==
  [req |-> [method |-> "", url |-> << >>, headers |-> << >>],
   options |-> RequestOptions([method |-> "", url |-> << >>, headers |-> << >>],
                              NoTarget, "false"),
   inbound |-> "none", proxyReq |-> "none"]

\* the other component's variables while this one runs
ProxyIdle ==
  /\ config = [mode |-> "express", logger |-> FALSE, detectors |-> << >>]
  /\ now = 0
  /\ hitTracker = << >>
  /\ run = << >>
  /\ reqs = EmptyBag
  /\ accepted = NoRequest
  /\ ended = None
  /\ nreq = 0
  /\ triggered = << >>

ForwardIdle ==
  /\ options = [fn |-> "", target |-> Undefined, changeOrigin |-> "undefined"]
  /\ targetParsed = NoTarget
  /\ fwd = NoForward

\* an inbound request reaches forwardRequest, which opens the outbound
\* request
Forward(m, u, h) ==
  /\ fwd.proxyReq # "open"
  /\ fwd' = [req |-> [method |-> m, url |-> u, headers |-> h],
             options |-> RequestOptions([method |-> m, url |-> u, headers |-> h],
                                        targetParsed,
                                        Construct(options).changeOrigin),
             inbound |-> "open", proxyReq |-> "open"]
  /\ UNCHANGED <<options, targetParsed, proxyVars, apiVars, logState>>

\* the client closes the inbound connection; forwardRequest registers no
\* listener for it and a pipe does not destroy its destination
ClientAbort ==
  /\ fwd.inbound = "open"
  /\ fwd.proxyReq = "open"
  /\ fwd' = [fwd EXCEPT !.inbound = "aborted"]
  /\ UNCHANGED <<options, targetParsed, proxyVars, apiVars, logState>>

\* the upstream's response ends
UpstreamEnd ==
  /\ fwd.proxyReq = "open"
  /\ fwd' = [fwd EXCEPT !.proxyReq = "finished"]
  /\ UNCHANGED <<options, targetParsed, proxyVars, apiVars, logState>>

\* the timeout callback: proxyReq.destroy()
UpstreamTimeout ==
  /\ fwd.proxyReq = "open"
  /\ fwd' = [fwd EXCEPT !.proxyReq = "destroyed"]
  /\ UNCHANGED <<options, targetParsed, proxyVars, apiVars, logState>>

\* the outbound request emits 'error'
UpstreamError ==
  /\ fwd.proxyReq = "open"
  /\ fwd' = [fwd EXCEPT !.proxyReq = "errored"]
  /\ UNCHANGED <<options, targetParsed, proxyVars, apiVars, logState>>

\* a proxy that was constructed: the constructor did not throw
ForwardInit ==
  /\ options \in {o \in ProxyOptions : Construct(o).threw = ""}
  /\ targetParsed = Construct(options).targetParsed
  /\ fwd = NoForward
  /\ ProxyIdle
  /\ api = NoCall
  /\ pattern = NoPattern
  /\ logState = NoLog

ForwardNext ==
  \/ \E m \in Methods, u \in ForwardUrls, h \in ForwardHeaders : Forward(m, u, h)
  \/ ClientAbort
  \/ UpstreamEnd
  \/ UpstreamTimeout
  \/ UpstreamError

ForwardSpec == ForwardInit /\ [][ForwardNext]_vars


Init ==
  /\ config \in Configs
  /\ now = 0
  /\ hitTracker = [k \in 1..Len(config.detectors) |-> EmptyMap]
  /\ run = [k \in 1..Len(config.detectors) |-> EmptyMap]
  /\ reqs = EmptyBag
  /\ accepted = NoRequest
  /\ ended = None
  /\ nreq = 0
  /\ triggered = << >>
  /\ ForwardIdle
  /\ api = NoCall
  /\ pattern = NoPattern
  /\ logState = NoLog

Next ==
  \/ \E h \in HeaderSets, u \in Urls : Request(h, u)
  \/ \E rq \in InFlight, code \in UpstreamStatuses : ProxyResponse(rq, code)
  \/ \E rq \in InFlight : ProxyEnd(rq)
  \/ \E rq \in InFlight : Timeout(rq)
  \/ \E rq \in InFlight : ProxyError(rq)
  \/ \E rq \in InFlight : HangUp(rq)
  \/ Tick

Spec == Init /\ [][Next]_vars

\* the proxy with one detector and no logger
FairInit ==
  /\ Init
  /\ config = [mode |-> "standalone", logger |-> FALSE,
               detectors |-> << Detector(StringPath(<<"/", "a">>), 401, 3, 1, "ok") >>]

\* the event loop runs every event that is pending
FairSpec == FairInit /\ [][Next]_vars /\ WF_vars(Next)

(************************** logger middleware ******************************)
\* what the logger's closure keeps of a request: method and url
LoggedRequests == [method : {"GET", "POST"}, url : {<<"/", "a">>, <<"/", "b">>}]

\* the arguments res.end is called with: the last chunk, or none
EndArgs == { << >>, << "chunk" >> }

LoggerIdle == logState = NoLog

\* the logger middleware runs for a request: it wraps res.end and calls
\* next()
LogRequest(w) ==
  /\ logState.accepted < MaxRequests
  /\ BagCardinality(logState.open) < MaxInFlight
  /\ logState' = [logState EXCEPT !.accepted = @ + 1,
                        !.open = @ (+) SetToBag({w}),
                        !.given = << >>, !.passed = << >>]
  /\ UNCHANGED <<proxyVars, forwardVars, apiVars>>

\* res.end(...args) is called on a wrapped response
LogEnd(w, args) ==
  /\ logState' = LoggerEnd(logState, w, args)
  /\ UNCHANGED <<proxyVars, forwardVars, apiVars>>

\* the append of an entry succeeds or fails
LogAppendFile(ok) ==
  /\ logState.pending > 0
  /\ logState' = [AppendFileSettled(logState, ok) EXCEPT !.given = << >>,
                                                        !.passed = << >>]
  /\ UNCHANGED <<proxyVars, forwardVars, apiVars>>

LoggerInit == ProxyIdle /\ ForwardIdle /\ api = NoCall /\ pattern = NoPattern /\ LoggerIdle

LoggerNext ==
  \/ \E w \in LoggedRequests : LogRequest(w)
  \/ \E w \in BagToSet(logState.open), args \in EndArgs : LogEnd(w, args)
  \/ \E ok \in BOOLEAN : LogAppendFile(ok)

LoggerSpec == LoggerInit /\ [][LoggerNext]_vars

(******************* constructors and helpers on their own *****************)
(* inputs *)
DetectorOptions ==
  [path : {JsUndefined, JsString(<< >>), JsString(<<"/", "a">>)},
   statusCode : {JsUndefined, JsNumber(0), JsNumber(401)},
   threshold : {JsUndefined, JsNumber(0), JsNumber(-1), JsNumber(3)},
   onTrigger : {JsUndefined, JsString(<<"f">>), JsFunction}]

HeaderNames ==
  { <<"T", "E">>, <<"t", "e">>, <<"H", "o", "s", "t">>,
    <<"K", "e", "e", "p", "-", "A", "l", "i", "v", "e">>, <<"a", "c", "c", "e", "p", "t">> }

\* header objects of up to three entries with distinct names
HeaderObjects ==
  { << >> }
  \cup { << <<a, <<"1">>>> >> : a \in HeaderNames }
  \cup { << <<p[1], <<"1">>>>, <<p[2], <<"2">>>> >> :
           p \in {q \in HeaderNames \X HeaderNames : q[1] # q[2]} }
  \cup { << <<p[1], <<"1">>>>, <<p[2], <<"2">>>>, <<p[3], <<"3">>>> >> :
           p \in {q \in {<<"H", "o", "s", "t">>, <<"t", "e">>} \X HeaderNames \X HeaderNames :
                    q[1] # q[2] /\ q[1] # q[3] /\ q[2] # q[3]} }

CallFilterHeaders(headers) ==
  /\ api' = [fn |-> "filterHeaders", args |-> headers,
             result |-> filterHeaders(headers)]
  /\ UNCHANGED <<proxyVars, forwardVars, pattern, logState>>

CallCreateProxy(o) ==
  /\ o.fn = "createProxy"
  /\ api' = [fn |-> "createProxy", args |-> o, result |-> createProxy(o)]
  /\ UNCHANGED <<proxyVars, forwardVars, pattern, logState>>

CallCreateProxyMiddleware(o) ==
  /\ o.fn = "createProxyMiddleware"
  /\ api' = [fn |-> "createProxyMiddleware", args |-> o,
             result |-> createProxyMiddleware(o)]
  /\ UNCHANGED <<proxyVars, forwardVars, pattern, logState>>

CallCreateAttackDetector(o) ==
  /\ api' = [fn |-> "createAttackDetector", args |-> o,
             result |-> createAttackDetector(o)]
  /\ UNCHANGED <<proxyVars, forwardVars, pattern, logState>>

DetectorPaths == {StringPath(<<"/", "a">>), RegExpPath(<<"/", "a">>)}

CheckedUrls ==
  { <<"/", "a">>, <<"/", "a", "?", "x", "=", "1">>, <<"/", "b", "?", "p", "=", "/", "a">>,
    <<"/", "a", "/", "b", "?", "x">>, <<"/", "b">> }

\* requests with every combination of the headers and the socket address
\* that getClientIP reads
IpRequests ==
  { Headers(cf, xff, xri, remote) :
      cf \in {Undefined, <<"1">>},
      xff \in {Undefined, <<"9", ",", " ", "8">>, <<" ", "5", " ">>},
      xri \in {Undefined, <<"3">>},
      remote \in {Undefined, <<"7">>} }

\* the patterns /^\/a/, /^\/a/g and /^\/a/y
Patterns == {RegExp(<<"/", "a">>, flags) : flags \in {"", "g", "y"}}

\* RegExp.prototype.test(str) for a source ^prefix: the outcome and the
\* object afterwards.  A global or sticky pattern starts at its lastIndex
\* and leaves the end of the match there, or 0 when it fails; ^ matches at
\* index 0 only.
RegExpTest(re, str) ==
  LET stateful == re.flags \in {"g", "y"}
      start == IF stateful THEN re.lastIndex ELSE 0
      matched == /\ start = 0
                 /\ matchPath([kind |-> "regexp", value |-> re.prefix], str)
  IN [matched |-> matched,
      regexp |-> IF ~stateful THEN re
                 ELSE [re EXCEPT !.lastIndex = IF matched THEN Len(re.prefix) ELSE 0]]

\* the path check of the middleware of one detector, constructed with the
\* RegExp object `pattern` as its path, for a request url
CallPatternPathCheck(u) ==
  LET requestPath == Pathname(u)
      test == RegExpTest(pattern, requestPath)
  IN /\ api' = [fn |-> "patternPathCheck",
                args |-> [prefix |-> pattern.prefix, flags |-> pattern.flags,
                          url |-> u],
                result |-> [requestPath |-> requestPath,
                            matched |-> test.matched]]
     /\ pattern' = test.regexp
     /\ UNCHANGED <<proxyVars, forwardVars, logState>>

\* the detector middleware's path check for a request url
CallDetectorPathCheck(targetPath, u) ==
  /\ api' = [fn |-> "detectorPathCheck",
             args |-> [path |-> targetPath, url |-> u],
             result |-> [requestPath |-> Pathname(u),
                         matched |-> matchPath(targetPath, Pathname(u))]]
  /\ UNCHANGED <<proxyVars, forwardVars, pattern, logState>>

CallGetClientIP(h) ==
  /\ api' = [fn |-> "getClientIP", args |-> h, result |-> getClientIP(h)]
  /\ UNCHANGED <<proxyVars, forwardVars, pattern, logState>>

ApiInit ==
  ProxyIdle /\ ForwardIdle /\ api = NoCall /\ pattern \in Patterns /\ logState = NoLog

ApiNext ==
  \/ \E headers \in HeaderObjects : CallFilterHeaders(headers)
  \/ \E o \in ProxyOptions \cup GuardedProxyOptions : CallCreateProxy(o)
  \/ \E o \in ProxyOptions : CallCreateProxyMiddleware(o)
  \/ \E o \in DetectorOptions : CallCreateAttackDetector(o)
  \/ \E targetPath \in DetectorPaths, u \in CheckedUrls :
       CallDetectorPathCheck(targetPath, u)
  \/ \E h \in IpRequests : CallGetClientIP(h)
  \/ \E u \in CheckedUrls : CallPatternPathCheck(u)

ApiSpec == ApiInit /\ [][ApiNext]_vars

(************************* attack detector claims **************************)
Dets == config.detectors

DetIds == 1..Len(config.detectors)

\* the calls of onTrigger that detector k made in the latest step
Calls(log, k) == SelectSeq(log, LAMBDA e : e.detector = k)

\* the pair p ended with a response that detector k monitors: its path is
\* the detector's path and the status the client got is the watched one
Monitored(k, p) ==
  /\ p # None
  /\ IF Dets[k].path.kind = "string"
     THEN p.requestPath = Dets[k].path.value
     ELSE \E i \in 0..Len(p.requestPath) :
            SubSeq(p.requestPath, 1, i) = Dets[k].path.value
  /\ p.statusCode = Dets[k].statusCode

\* how many of the hits in h, recorded before time t, lie within the
\* window tw of a hit at time t
InWindow(h, t, tw) == Cardinality({i \in DOMAIN h : t - h[i] < tw})

\* C1: when a monitored response of an ip completes and threshold-1 earlier
\* hits of that ip since its last trigger lie within the time window, this
\* completion (the threshold-th hit) calls onTrigger exactly once, with that
\* ip and hits = threshold; with fewer earlier hits in the window (one of
\* the first threshold-1 hits) it does not call onTrigger.
C1_TriggerOnThresholdHit ==
  [][\A k \in DetIds :
       Monitored(k, ended') =>
         LET earlier == InWindow(Since(run[k], ended'.ip), now, Dets[k].timeWindow)
             calls == Calls(triggered', k)
         IN IF earlier >= Dets[k].threshold - 1
            THEN /\ Len(calls) = 1
                 /\ calls[1].ip = ended'.ip
                 /\ calls[1].hits = Dets[k].threshold
            ELSE calls = << >>]_vars

\* three hits of one ip within the window of a detector with threshold 3
\* called onTrigger
C1_Witness ==
  \E k \in DetIds :
    /\ Dets[k].threshold = 3
    /\ Monitored(k, ended)
    /\ Len(Calls(triggered, k)) = 1
    /\ Calls(triggered, k)[1].hits = 3

\* C2: every call of onTrigger carries hits equal to the threshold of the
\* detector that made it.
C2_HitsEqualThreshold ==
  \A i \in DOMAIN triggered :
    triggered[i].hits = Dets[triggered[i].detector].threshold

\* a detector called onTrigger for one ip while it holds hits of another
C2_Witness ==
  \E i \in DOMAIN triggered :
    \E ip \in DOMAIN hitTracker[triggered[i].detector] : ip # triggered[i].ip

\* C3: right after a detector called onTrigger for an ip it holds no hits of
\* that ip; the next monitored response of that ip is recorded as its only
\* hit and calls nothing (threshold > 1); and a call needs threshold-1
\* earlier hits recorded since the previous call.
C3_NoCarryOver ==
  [][\A k \in DetIds :
       LET calls == Calls(triggered', k)
           ip == ended'.ip
       IN /\ \A i \in DOMAIN calls : calls[i].ip \notin DOMAIN hitTracker'[k]
          /\ ( /\ Monitored(k, ended')
               /\ Fired(run[k], ip)
               /\ Since(run[k], ip) = << >>
               /\ Dets[k].threshold > 1 )
             => /\ calls = << >>
                /\ ip \in DOMAIN hitTracker'[k]
                /\ hitTracker'[k][ip] = << now >>
          /\ calls # << >> => Len(Since(run[k], ip)) >= Dets[k].threshold - 1]_vars

\* after a call of onTrigger for an ip, one further hit of it is on record
C3_Witness ==
  \E k \in DetIds : \E ip \in DOMAIN hitTracker[k] :
    /\ Dets[k].threshold > 1
    /\ Fired(run[k], ip)
    /\ Len(Since(run[k], ip)) = 1
    /\ Len(hitTracker[k][ip]) = 1

\* C4: a detector calls onTrigger for an ip only if the threshold most
\* recent monitored responses of that ip since its previous call (the
\* completing one included) all lie within the time window of the
\* completing one; hits spread wider never trigger.
C4_TriggerOnlyWithinWindow ==
  [][\A k \in DetIds :
       Calls(triggered', k) # << >> =>
         LET h == Since(run[k], ended'.ip)
             th == Dets[k].threshold
         IN /\ Monitored(k, ended')
            /\ Len(h) >= th - 1
            /\ \A i \in DOMAIN h :
                 i > Len(h) - (th - 1) => now - h[i] < Dets[k].timeWindow]_vars

\* three hits of one ip, the first purged before the third, and no call
C4_Witness ==
  \E k \in DetIds : \E ip \in DOMAIN run[k] :
    /\ Dets[k].threshold = 3
    /\ ~Fired(run[k], ip)
    /\ Len(Since(run[k], ip)) = 3
    /\ Since(run[k], ip)[3] - Since(run[k], ip)[1] >= Dets[k].timeWindow

\* C5: only a response on the detector's path with the watched status
\* changes the detector's hit record or calls onTrigger.
C5_OnlyMonitoredResponsesCount ==
  [][\A k \in DetIds :
       (hitTracker'[k] # hitTracker[k] \/ Calls(triggered', k) # << >>)
         => Monitored(k, ended')]_vars

\* a response with the watched status on another path ended while hits
\* are on record
C5_Witness ==
  \E k \in DetIds :
    /\ hitTracker[k] # EmptyMap
    /\ ended # None
    /\ triggered = << >>
    /\ ended.requestPath # Dets[k].path.value
    /\ ended.statusCode = Dets[k].statusCode

\* C6: right after a detector processed a hit of an ip at time now, no
\* timestamp on record for that ip is older than now - timeWindow.
C6_NoStaleHitsAfterRead ==
  \A k \in DetIds :
    (Monitored(k, ended) /\ ended.ip \in DOMAIN hitTracker[k]) =>
      \A i \in DOMAIN hitTracker[k][ended.ip] :
        hitTracker[k][ended.ip][i] >= now - Dets[k].timeWindow

\* a hit was processed and an earlier hit of the ip was purged
C6_Witness ==
  \E k \in DetIds :
    /\ Monitored(k, ended)
    /\ ended.ip \in DOMAIN hitTracker[k]
    /\ Len(Since(run[k], ended.ip)) > Len(hitTracker[k][ended.ip])

C8_DetectorKeyIsClientIP ==
  accepted.wrapped # {} => accepted.ip = getClientIP(accepted.headers)

(************************ forwarding engine claims *************************)
\* C9: the timeout callback destroys the outbound request; when no head was
\* sent it answers 504 with the fixed Gateway Timeout body, the head written
\* once and the response ended once, otherwise it writes nothing; the
\* 'error' event that follows the destroy writes nothing either.
C9_TimeoutAnswers504Once ==
  [][\A rq \in InFlight :
       /\ Timeout(rq) =>
            /\ \E new \in BagToSet(reqs') :
                 new.proxyReq = "destroyed" /\ reqs' = Replace(rq, new)
            /\ IF ~rq.headersSent
               THEN /\ ended'.statusCode = 504
                    /\ ended'.body =
                         "{\"error\":\"Gateway Timeout\",\"message\":\"Target server took too long to respond\"}"
                    /\ ended'.heads = 1
                    /\ ended'.ends = 1
               ELSE /\ ended' = None
                    /\ \A new \in BagToSet(reqs') : new.heads <= 1
       /\ HangUp(rq) => ended' = None]_vars

\* the timeout answered 504 and the outbound request's 'error' is to come
C9_Witness ==
  /\ ended.statusCode = 504
  /\ ended.body = ERROR_TIMEOUT
  /\ \E rq \in InFlight : rq.hangup /\ rq.proxyReq = "destroyed"

C11_MidStreamErrorTerminates ==
  (\E rq \in InFlight : rq.st = "stalled" /\ rq.proxyReq = "errored")
    ~> ~(\E rq \in InFlight : rq.st = "stalled" /\ rq.proxyReq = "errored")

RECURSIVE Copies(_, _)
Copies(b, S) ==
  IF S = {} THEN 0
  ELSE LET x == CHOOSE y \in S : TRUE
       IN CopiesIn(x, b) + Copies(b, S \ {x})

\* the number of open outbound requests among the pairs of the bag b
Open(b) == Copies(b, {rq \in BagToSet(b) : rq.proxyReq = "open"})

\* C20: an inbound request opens one outbound request, and no other step
\* opens one: a timeout or a connection error closes the pair's outbound
\* request and puts no other in its place.
C20_OneOutboundPerInbound ==
  [][/\ nreq' = nreq + 1 => Open(reqs') = Open(reqs) + 1
     /\ nreq' = nreq => Open(reqs') <= Open(reqs)
     /\ \A rq \in InFlight :
          (Timeout(rq) \/ ProxyError(rq)) => Open(reqs') = Open(reqs) - 1]_vars

\* a connection error left a pair whose head was sent, and nothing is open
C20_Witness ==
  /\ nreq >= 1
  /\ Open(reqs) = 0
  /\ \E rq \in InFlight : rq.proxyReq = "errored"

(***************************** stage chain ********************************)
\* the fixed order: the logger if configured, each detector in configured
\* order, the forwarding engine; every stage but the last followed by its
\* one call of the continuation
ExpectedStages ==
  LET n == Len(config.detectors)
      logger == IF config.logger
                THEN << StageEvent("invoke", "logger", 0),
                        StageEvent("next", "logger", 0) >>
                ELSE << >>
      detectors == [i \in 1..(2 * n) |->
                      StageEvent(IF i % 2 = 1 THEN "invoke" ELSE "next",
                                 "detector", (i + 1) \div 2)]
  IN logger \o detectors \o << StageEvent("invoke", "forward", 0) >>

\* C19: a request to a standalone proxy runs the logger (if configured),
\* then each detector in configured order, then the forwarding engine;
\* every stage is invoked once, every stage but the forwarding engine calls
\* its continuation once, and the forwarding engine calls none.
C19_StagesInFixedOrderOnce ==
  (accepted # NoRequest /\ config.mode = "standalone") =>
     accepted.stages = ExpectedStages

\* a request went through the logger, two detectors that do not monitor
\* its path, and the forwarding engine
C19_Witness ==
  /\ config.logger
  /\ Len(config.detectors) = 2
  /\ accepted # NoRequest
  /\ accepted.wrapped = {}
  /\ Len(accepted.stages) = 7

(******************** forwarding engine: outbound claims *******************)
\* C12: when the client has aborted the inbound connection of a forward,
\* its outbound request is not left open.
C12_AbortTearsDownOutbound ==
  fwd.inbound = "aborted" => fwd.proxyReq # "open"

\* C13: the outbound request's path and method are the inbound request's
\* url (query string included) and method, whatever the url's query and
\* the Host and X-Forwarded-Host headers say.
C13_PathAndMethodUnmodified ==
  fwd.proxyReq # "none" =>
    /\ fwd.options.path = fwd.req.url
    /\ fwd.options.method = fwd.req.method

\* a POST with a target parameter in its query and a foreign Host header
C13_Witness ==
  /\ fwd.proxyReq = "open"
  /\ fwd.req.method = "POST"
  /\ fwd.req.url = <<"/", "a", "?", "t", "a", "r", "g", "e", "t", "=", "e">>
  /\ ObjGet(fwd.req.headers, HostKey) = <<"e">>
  /\ fwd.options.path = <<"/", "a", "?", "t", "a", "r", "g", "e", "t", "=", "e">>

\* C14: no step changes the target descriptor, and every outbound request
\* goes to the hostname, port and protocol derived from the configured
\* target, the same for any two requests.
C14_TargetFixedAtConstruction ==
  [][/\ targetParsed' = targetParsed
     /\ targetParsed = TargetParsed(NewURL(options.target))
     /\ fwd'.proxyReq # "none" =>
          /\ fwd'.options.hostname = NewURL(options.target).hostname
          /\ fwd'.options.port = TargetParsed(NewURL(options.target)).port
          /\ fwd'.options.protocol =
               (IF NewURL(options.target).protocol = <<"h", "t", "t", "p", "s", ":">>
                THEN "https" ELSE "http")
     /\ (fwd.proxyReq # "none" /\ fwd'.proxyReq # "none") =>
          /\ fwd'.options.hostname = fwd.options.hostname
          /\ fwd'.options.port = fwd.options.port
          /\ fwd'.options.protocol = fwd.options.protocol]_vars

\* a request with a foreign Host header and a target parameter went to the
\* configured https target
C14_Witness ==
  /\ options.target = <<"h", "t", "t", "p", "s", ":", "/", "/", "t", ":", "8">>
  /\ fwd.proxyReq = "open"
  /\ ObjGet(fwd.req.headers, HostKey) = <<"e">>
  /\ fwd.req.url = <<"/", "a", "?", "t", "a", "r", "g", "e", "t", "=", "e">>
  /\ fwd.options.hostname = <<"t">>
  /\ fwd.options.port = <<"8">>
  /\ fwd.options.protocol = "https"

\* C15: with changeOrigin the outbound headers have one host entry, the
\* target's host (hostname and explicit port); without it they have no
\* host entry; in neither case the inbound Host value.
C15_HostNeverForwarded ==
  fwd.proxyReq # "none" =>
    LET hs == fwd.options.headers
        hosts == {i \in DOMAIN hs : ToLowerCase(hs[i][1]) = HostKey}
    IN IF Construct(options).changeOrigin = "true"
       THEN /\ Cardinality(hosts) = 1
            /\ ObjGet(hs, HostKey) = NewURL(options.target).host
       ELSE hosts = {}

\* changeOrigin replaced a foreign inbound Host by the target's host with
\* its explicit port
C15_Witness ==
  /\ options.changeOrigin = "true"
  /\ fwd.proxyReq = "open"
  /\ ObjGet(fwd.req.headers, HostKey) = <<"e">>
  /\ ObjGet(fwd.options.headers, HostKey) = <<"t", ":", "8">>

(********************* constructors and helpers: claims ********************)
\* the denylist as the specification lists it
Denylist ==
  { <<"c", "o", "n", "n", "e", "c", "t", "i", "o", "n">>,
    <<"k", "e", "e", "p", "-", "a", "l", "i", "v", "e">>,
    <<"t", "r", "a", "n", "s", "f", "e", "r", "-", "e", "n", "c", "o", "d", "i", "n", "g">>,
    <<"u", "p", "g", "r", "a", "d", "e">>,
    <<"p", "r", "o", "x", "y", "-", "c", "o", "n", "n", "e", "c", "t", "i", "o", "n">>,
    <<"p", "r", "o", "x", "y", "-", "a", "u", "t", "h", "e", "n", "t", "i", "c", "a", "t", "e">>,
    <<"p", "r", "o", "x", "y", "-", "a", "u", "t", "h", "o", "r", "i", "z", "a", "t", "i", "o", "n">>,
    <<"t", "e">>,
    <<"t", "r", "a", "i", "l", "e", "r">> }

\* position of the entry named key in the header object h
PositionOf(h, key) == CHOOSE i \in DOMAIN h : h[i][1] = key

\* C16: filterHeaders returns exactly the entries whose lower-cased name is
\* not in the denylist, each with its name as written and its value, in the
\* order of the argument, and the argument is left as it was.
C16_FilterKeepsAllButDenylisted ==
  api.fn = "filterHeaders" =>
    LET H == api.args
        F == api.result.filtered
    IN /\ \A i \in DOMAIN F :
            /\ \E j \in DOMAIN H : H[j] = F[i]
            /\ ToLowerCase(F[i][1]) \notin Denylist
       /\ \A j \in DOMAIN H :
            ToLowerCase(H[j][1]) \notin Denylist => \E i \in DOMAIN F : F[i] = H[j]
       /\ \A i, k \in DOMAIN F :
            i < k => PositionOf(H, F[i][1]) < PositionOf(H, F[k][1])
       /\ api.result.headers = H

\* an upper-case denylisted name between two names that are kept
C16_Witness ==
  /\ api.fn = "filterHeaders"
  /\ api.args = << <<<<"H", "o", "s", "t">>, <<"1">>>>, <<<<"T", "E">>, <<"2">>>>, <<<<"a", "c", "c", "e", "p", "t">>, <<"3">>>> >>
  /\ api.result.filtered = << <<<<"H", "o", "s", "t">>, <<"1">>>>, <<<<"a", "c", "c", "e", "p", "t">>, <<"3">>>> >>

\* C17: both constructors throw 'Target URL is required' for no target and
\* 'Target must be a valid URL' for a target that is not a well-formed
\* absolute URL, and then create no server, bind no port and return no
\* middleware; otherwise they do not throw.
C17_ConstructionRejectsBadTarget ==
  api.fn \in {"createProxy", "createProxyMiddleware"} =>
    LET given == api.args.target # Undefined /\ api.args.target # << >>
        r == api.result
    IN /\ ~given => r.threw = "Target URL is required"
       /\ (given /\ ~NewURL(api.args.target).ok) =>
            r.threw = "Target must be a valid URL"
       /\ (given /\ NewURL(api.args.target).ok
                 /\ "attackDetector" \notin DOMAIN api.args) => r.threw = ""
       /\ r.threw # "" => ~r.server /\ ~r.listening /\ ~r.middleware

\* createProxy rejected a target whose port is not a number
C17_Witness ==
  /\ api.fn = "createProxy"
  /\ api.args.target = <<"h", "t", "t", "p", ":", "/", "/", "t", ":", "x">>
  /\ api.result.threw = "Target must be a valid URL"
  /\ ~api.result.server

\* a field that is absent, or empty or zero, which the validation does not
\* tell from absent
Missing(v) ==
  \/ v.type = "undefined"
  \/ v.type = "string" /\ v.v = << >>
  \/ v.type = "number" /\ v.v = 0

\* C18: createAttackDetector throws for the first of path, statusCode,
\* threshold and onTrigger that is missing or invalid, with that field's
\* message, and returns a middleware only when all four are valid.
C18_DetectorValidatedEagerly ==
  api.fn = "createAttackDetector" =>
    LET o == api.args
        r == api.result
        expected ==
          IF Missing(o.path) THEN "path is required"
          ELSE IF Missing(o.statusCode) THEN "statusCode is required"
          ELSE IF Missing(o.threshold) \/ ~(o.threshold.v > 0)
          THEN "threshold must be a positive number"
          ELSE IF o.onTrigger.type # "function" THEN "onTrigger must be a function"
          ELSE ""
    IN r.threw = expected /\ r.middleware = (expected = "")

\* a negative threshold is reported although onTrigger is missing too
C18_Witness ==
  /\ api.fn = "createAttackDetector"
  /\ api.args.threshold.type = "number"
  /\ api.args.threshold.v = -1
  /\ api.args.onTrigger.type = "undefined"
  /\ api.result.threw = "threshold must be a positive number"
  /\ ~api.result.middleware

(********************* attack detector claims, continued *******************)
\* C21: every detector that monitors the response a step ends counts it,
\* whatever its place among the detectors, and a detector that does not
\* monitor it keeps its hit record while another records or clears.
C21_DetectorsIndependent ==
  [][\A k \in DetIds :
       Monitored(k, ended') =>
         /\ \/ Calls(triggered', k) # << >>
            \/ /\ ended'.ip \in DOMAIN hitTracker'[k]
               /\ hitTracker'[k][ended'.ip] # MapGetOrEmpty(hitTracker[k], ended'.ip)
         /\ \A j \in DetIds \ {k} :
              ~Monitored(j, ended') => hitTracker'[j] = hitTracker[j]]_vars

\* the second detector fired and cleared an ip for which the first holds a
\* hit
C21_Witness ==
  /\ Len(config.detectors) = 2
  /\ Calls(triggered, 2) # << >>
  /\ ended.ip \in DOMAIN hitTracker[1]
  /\ ended.ip \notin DOMAIN hitTracker[2]

\* C24: a response on a monitored path is counted by a detector if and only
\* if the status the client got is the watched one, be it relayed from the
\* upstream or the proxy's own 504 or 500.
C24_HitIffWrittenStatusMatches ==
  [][\A k \in DetIds :
       (ended' # None /\ ended'.requestPath = Dets[k].path.value) =>
         ((Calls(triggered', k) # << >> \/ hitTracker'[k] # hitTracker[k])
            <=> ended'.statusCode = Dets[k].statusCode)]_vars

\* the proxy's own 504 was counted by the detector that watches 504
C24_Witness ==
  /\ ended.statusCode = 504
  /\ ended.body = ERROR_TIMEOUT
  /\ \E k \in DetIds : Dets[k].statusCode = 504 /\ Calls(triggered, k) # << >>

\* C27: a step that processes a hit or a breach of one ip leaves the hits
\* recorded for every other ip as they were.
C27_OtherIpsUntouched ==
  [][\A k \in DetIds : \A ip \in DOMAIN hitTracker[k] :
       (ended' = None \/ ended'.ip # ip) =>
          /\ ip \in DOMAIN hitTracker'[k]
          /\ hitTracker'[k][ip] = hitTracker[k][ip]]_vars

\* a breach of one ip while another ip has hits on record
C27_Witness ==
  \E k \in DetIds :
    /\ Calls(triggered, k) # << >>
    /\ \E ip \in DOMAIN hitTracker[k] : ip # ended.ip

\* C30: every ip in a detector's hit tracker has at least one and fewer
\* than threshold timestamps.
C30_TrackedListsWithinBounds ==
  \A k \in DetIds : \A ip \in DOMAIN hitTracker[k] :
    /\ Len(hitTracker[k][ip]) >= 1
    /\ Len(hitTracker[k][ip]) <= Dets[k].threshold - 1

\* an ip is one hit short of the threshold of a detector with threshold 3
C30_Witness ==
  \E k \in DetIds : \E ip \in DOMAIN hitTracker[k] :
    Dets[k].threshold = 3 /\ Len(hitTracker[k][ip]) = 2

\* C23: a detector evaluates a response (status match, hit recording,
\* onTrigger) only after the response's end was passed on to the original
\* res.end.
C23_EvaluationAfterResponseEnd ==
  \A i \in DOMAIN ended.order :
    ended.order[i].step = "evaluate" =>
      \E j \in 1..(i - 1) : ended.order[j].step = "originalEnd"

TrackedIps == {DetectorIP(h) : h \in HeaderSets}

\* detector k holds hits of ip, all of them older than its time window
Stale(k, ip) ==
  /\ k \in DetIds
  /\ ip \in DOMAIN hitTracker[k]
  /\ \A i \in DOMAIN hitTracker[k][ip] :
       now - hitTracker[k][ip][i] >= Dets[k].timeWindow

\* C28: once all hits recorded for an ip are older than the time window,
\* the detector eventually holds no entry for that ip.
C28_StaleEntriesCleanedUp ==
  \A k \in 1..2 : \A ip \in TrackedIps :
    Stale(k, ip) ~> (k \in DetIds /\ ip \notin DOMAIN hitTracker[k])

\* p is the url u without its query string
IsPathOf(p, u) ==
  \E i \in 0..Len(u) :
    /\ p = SubSeq(u, 1, i)
    /\ \A j \in 1..i : u[j] # "?"
    /\ i = Len(u) \/ u[i + 1] = "?"

\* C25: a detector's path is matched against the url without its query
\* string: a string path by equality, a pattern by testing that path.
C25_PathMatchedWithoutQuery ==
  api.fn = "detectorPathCheck" =>
    /\ IsPathOf(api.result.requestPath, api.args.url)
    /\ api.result.matched <=>
         \E p \in {SubSeq(api.args.url, 1, i) : i \in 0..Len(api.args.url)} :
           /\ IsPathOf(p, api.args.url)
           /\ IF api.args.path.kind = "string" THEN p = api.args.path.value
              ELSE /\ Len(p) >= Len(api.args.path.value)
                   /\ SubSeq(p, 1, Len(api.args.path.value)) = api.args.path.value

\* a url with a query string matched the string path it starts with
C25_Witness ==
  /\ api.fn = "detectorPathCheck"
  /\ api.args.url = <<"/", "a", "?", "x", "=", "1">>
  /\ api.args.path = StringPath(<<"/", "a">>)
  /\ api.result.matched

\* r is the first comma-separated entry of x, trimmed
IsFirstEntryTrimmed(r, x) ==
  \E i \in 1..(Len(x) + 1), j \in 0..Len(x) :
    /\ r = SubSeq(x, i, j)
    /\ \A p \in 1..(i - 1) : x[p] = " "
    /\ \A p \in i..j : x[p] # ","
    /\ r # << >> => (r[1] # " " /\ r[Len(r)] # " ")
    /\ \E e \in j..Len(x) :
         /\ \A p \in (j + 1)..e : x[p] = " "
         /\ e = Len(x) \/ x[e + 1] = ","

\* C26: the logger's client ip is the CF-Connecting-IP header, else the
\* first entry of X-Forwarded-For, trimmed, else X-Real-IP, else the
\* socket's remote address, else "unknown".
C26_LoggerIpOrder ==
  api.fn = "getClientIP" =>
    LET h == api.args
        r == api.result
    IN IF h.cf # Undefined THEN r = h.cf
       ELSE IF h.xff # Undefined THEN IsFirstEntryTrimmed(r, h.xff)
       ELSE IF h.xri # Undefined THEN r = h.xri
       ELSE IF h.remote # Undefined THEN r = h.remote
       ELSE r = <<"u", "n", "k", "n", "o", "w", "n">>

\* CF-Connecting-IP won over X-Forwarded-For, X-Real-IP and the socket
C26_Witness ==
  /\ api.fn = "getClientIP"
  /\ api.args = Headers(<<"1">>, <<"9", ",", " ", "8">>, <<"3">>, <<"7">>)
  /\ api.result = <<"1">>

\* C29: when all matching responses of an ip so far completed within one
\* time window of a detector, the detector has called onTrigger exactly
\* floor(N / threshold) times for it, N being their number, whatever the
\* order in which requests arrived and responses completed.
C29_CallsAreFloorOfHits ==
  \A k \in DetIds : \A ip \in DOMAIN run[k] :
    run[k][ip].last - run[k][ip].first < Dets[k].timeWindow =>
      run[k][ip].calls = run[k][ip].total \div Dets[k].threshold

\* three matching responses in one window against a threshold of two: one
\* call, and one hit left over
C29_Witness ==
  \E k \in DetIds : \E ip \in DOMAIN run[k] :
    /\ Dets[k].threshold = 2
    /\ run[k][ip].last - run[k][ip].first < Dets[k].timeWindow
    /\ run[k][ip].total = 3
    /\ run[k][ip].calls = 1
    /\ Len(hitTracker[k][ip]) = 1

\* C31: the head of a client response is written at most once, so the
\* relayed upstream status, the 504 and the 500 exclude each other; and the
\* 'error' event of an outbound request destroyed by the timeout handler
\* writes and ends nothing once the 504 is out.
C31_HeadWrittenAtMostOnce ==
  [][/\ ended'.heads <= 1
     /\ \A rq \in BagToSet(reqs') : rq.heads <= 1
     /\ \A rq \in BagToSet(reqs) :
          (HangUp(rq) /\ rq.headersSent)
            => ended' = None /\ triggered' = << >> /\ reqs' = Remove(rq)]_vars

\* the 504 is out and the 'error' event of the destroyed request is due
C31_Witness ==
  \E rq \in BagToSet(reqs) :
    /\ rq.hangup
    /\ rq.proxyReq = "destroyed"
    /\ rq.heads = 1
    /\ rq.statusCode = 504

\* C32: the window boundary is strict.  When a monitored response of an ip
\* completes, the hits counted are this one and the recorded ones younger
\* than timeWindow; a recorded hit whose age is exactly timeWindow is purged
\* and not counted, one that is a tick younger is.
C32_WindowBoundaryStrict ==
  [][\A k \in DetIds :
       Monitored(k, ended') =>
         LET ip == ended'.ip
             recorded == MapGetOrEmpty(hitTracker[k], ip)
             counted == 1 + InWindow(recorded, now, Dets[k].timeWindow)
             calls == Calls(triggered', k)
         IN /\ calls # << >> <=> counted >= Dets[k].threshold
            /\ calls # << >> => calls[1].hits = counted
            /\ calls = << >> =>
                 /\ Len(hitTracker'[k][ip]) = counted
                 /\ \A i \in DOMAIN hitTracker'[k][ip] :
                      now - hitTracker'[k][ip][i] # Dets[k].timeWindow]_vars

\* a second hit arrived exactly timeWindow after the first (threshold 2):
\* the first was purged and onTrigger was not called
C32_Witness ==
  \E k \in DetIds :
    /\ Dets[k].threshold = 2
    /\ Monitored(k, ended)
    /\ Calls(triggered, k) = << >>
    /\ Since(run[k], ended.ip) = << now - Dets[k].timeWindow, now >>
    /\ hitTracker[k][ended.ip] = << now >>

\* C33: path matching is stateless: two checks in a row of the same url by
\* the same detector give the same answer, whatever the flags of its
\* pattern.
C33_PathMatchingStateless ==
  [][( /\ api.fn = "patternPathCheck"
       /\ api'.fn = "patternPathCheck"
       /\ api'.args = api.args )
     => api'.result.matched = api.result.matched]_vars

\* C34: at the completion of a response the logger's hook runs before any
\* detector's, and the detectors evaluate it, record their hits and call
\* onTrigger in configured order, the first-configured detector first.
C34_CompletionHooksInConfiguredOrder ==
  /\ \A i, j \in DOMAIN ended.order :
       (i < j /\ ended.order[i].step = "evaluate"
              /\ ended.order[j].step = "evaluate")
         => ended.order[i].detector < ended.order[j].detector
  /\ \A i, j \in DOMAIN triggered :
       i < j => triggered[i].detector < triggered[j].detector
  /\ \A i \in DOMAIN ended.order :
       ended.order[i].step = "evaluate" =>
         \E j \in 1..(i - 1) : ended.order[j].step = "log"

\* C35: a detector counts the hits of an ip whatever their paths: a
\* monitored completion is counted together with the ip's recorded hits in
\* the window, kept under the ip alone, and a call of onTrigger reports the
\* pathname, the time and the user agent ("unknown" if the header is
\* absent) of the request that completed.
C35_HitsPerIpEventOfLastRequest ==
  [][\A k \in DetIds :
       Monitored(k, ended') =>
         LET ip == ended'.ip
             counted == 1 + InWindow(MapGetOrEmpty(hitTracker[k], ip), now,
                                     Dets[k].timeWindow)
             calls == Calls(triggered', k)
         IN /\ DOMAIN hitTracker'[k] \subseteq TrackedIps
            /\ calls = << >> => Len(hitTracker'[k][ip]) = counted
            /\ calls # << >> =>
                 /\ calls[1].hits = counted
                 /\ calls[1].path = ended'.requestPath
                 /\ calls[1].timestamp = now
                 /\ calls[1].userAgent =
                      IF ended'.userAgent = Undefined
                      THEN <<"u", "n", "k", "n", "o", "w", "n">>
                      ELSE ended'.userAgent]_vars

\* two hits of one ip on different paths of a pattern detector with
\* threshold 2 called onTrigger, for a request without a User-Agent header
C35_Witness ==
  \E k \in DetIds :
    /\ Dets[k].path.kind = "regexp"
    /\ Monitored(k, ended)
    /\ Calls(triggered, k) # << >>
    /\ Calls(triggered, k)[1].hits = 2
    /\ run[k][ended.ip].total = 2
    /\ Cardinality(run[k][ended.ip].paths) = 2
    /\ Calls(triggered, k)[1].userAgent = <<"u", "n", "k", "n", "o", "w", "n">>

\* C36: a createProxy call that throws leaves nothing behind: no server
\* was created or listens, and no cleanup timer of the logger is scheduled.
C36_FailedConstructionLeavesNothing ==
  (api.fn = "createProxy" /\ api.result.threw # "") =>
    /\ ~api.result.server
    /\ ~api.result.listening
    /\ ~api.result.cleanupTimer

(****************************** logger claims ******************************)
\* C38: every response that completed through the logger has exactly one
\* entry, written, failed or still being written (so N lines for N
\* completed responses once all writes succeeded); the end of a response
\* is passed on with its arguments while the write is still in flight, and
\* a write that fails changes nothing but the count of failures.
C38_OneEntryPerResponseFireAndForget ==
  [][/\ logState'.lines + logState'.failed + logState'.pending = logState'.completed
     /\ logState'.passed = logState'.given
     /\ logState'.completed = logState.completed + 1
          => logState'.pending = logState.pending + 1
     /\ logState'.failed = logState.failed + 1 =>
          /\ logState'.completed = logState.completed
          /\ logState'.open = logState.open
          /\ logState'.lines = logState.lines]_vars

\* three responses completed: one line is in the file, one write failed
\* and the write for the response that just ended is in flight
C38_Witness ==
  /\ logState.completed = 3
  /\ logState.passed = << "chunk" >>
  /\ logState.lines = 1
  /\ logState.failed = 1
  /\ logState.pending = 1

(*************************** transparency **********************************)
\* what the client and the upstream see of a pair: the response and the
\* outbound request, without what the logger and the detectors keep
Bare(rq) ==
  [rq EXCEPT !.wrapped = {}, !.ip = Undefined, !.userAgent = Undefined,
             !.statusCodeSent = 0, !.requestPath = << >>]

BareBag(b) == BagOfAll(Bare, b)

\* what was delivered to the client by the response that ended
Delivered(e) ==
  [statusCode |-> e.statusCode, body |-> e.body, heads |-> e.heads,
   ends |-> e.ends]

Answer(code, body) ==
  [statusCode |-> code, body |-> body, heads |-> 1, ends |-> 1]

====
